---- MODULE Spec2Model ----
(***************************************************************************)
(* Endpoint picker of the inference gateway: the request-body handler      *)
(* (pkg/ext-proc/handlers), the scheduler's filter tree                    *)
(* (pkg/ext-proc/scheduling) and the metric recorders                      *)
(* (pkg/ext-proc/metrics).                                                 *)
(*                                                                         *)
(* Byte strings are modelled as sequences of JSON tokens (bodies) or of    *)
(* decimal digits (Content-Length); KV-cache fractions are scaled by 100.  *)
(***************************************************************************)
EXTENDS Integers, Sequences, FiniteSets, TLC

VARIABLES
    models,          \* datastore: model name -> InferenceModel
    podMetrics,      \* datastore: the snapshot AllPodMetrics returns
    streamState,     \* position of the ext-proc stream (S0, S1, S2, closed)
    reqBody,         \* bytes of the request-body message of the stream
    resp,            \* the last ProcessingResponse the handler returned
    err,             \* the error the handler returned ("nil" when none)
    reqCtx,          \* RequestContext of the stream
    llmReq,          \* the LLMRequest the handler assembled
    sched,           \* last Schedule call: pod, error and the filters visited
    scheduleCalls,   \* number of Schedule calls made for the stream
    schedulerFilter, \* Scheduler.filter: the root of the tree Schedule runs
    streams,         \* concurrent ext-proc streams: stream id -> its record
    requestLatencies, \* histogram vec request_duration_seconds
    inputTokens,     \* histogram vec input_tokens
    outputTokens,    \* histogram vec output_tokens
    lastCall,        \* the last metrics call and what it returned
    tokenCalls,      \* per histogram and series: calls made with size > 0
    registry,        \* legacyregistry: who registered each metric, how often
    registerMetrics, \* the sync.Once guarding Register
    callers          \* the goroutines calling Register

vars == <<models, podMetrics, streamState, reqBody, resp, err, reqCtx, llmReq,
          sched, scheduleCalls, schedulerFilter, streams, requestLatencies,
          inputTokens, outputTokens, lastCall, tokenCalls, registry,
          registerMetrics, callers>>

handlerVars == <<models, podMetrics, streamState, reqBody, resp, err, reqCtx,
                 llmReq, sched, scheduleCalls, schedulerFilter, streams>>

registerVars == <<registry, registerMetrics, callers>>

recordVars == <<requestLatencies, inputTokens, outputTokens, lastCall, tokenCalls>>

\* The state of the single stream and what the streams share.
streamVars == <<models, podMetrics, streamState, reqBody, resp, err, reqCtx,
                llmReq, sched, scheduleCalls, schedulerFilter>>

metricVars == <<requestLatencies, inputTokens, outputTokens, lastCall, tokenCalls,
                registry, registerMetrics, callers>>

-----------------------------------------------------------------------------
(* Bounds of the model. *)

MaxPods == 2
MaxCalls == 3
MaxTime == 1
MaxTokens == 1
MaxStreams == 2
MaxChunks == 1
MaxGoroutines == 3
MaxRegisterCalls == 2

-----------------------------------------------------------------------------
(* Scheduler thresholds. *)

kvCacheThreshold == 80
queueThresholdCritical == 5
queueingThresholdLoRA == 50

-----------------------------------------------------------------------------
(* JSON bodies as token sequences.  A token is a string literal (v is the  *)
(* text between the quotes), a number literal, a punctuation byte, the     *)
(* literal null, or one byte of insignificant whitespace.                  *)

S(v) == [t |-> "str", v |-> v]
N(v) == [t |-> "num", v |-> v]
P(v) == [t |-> "punct", v |-> v]
Null == [t |-> "null", v |-> "null"]
W == [t |-> "ws", v |-> " "]

\* len(b) of a []byte: the quotes of a string literal count.
TokLen(tok) == IF tok.t = "str" THEN Len(tok.v) + 2 ELSE Len(tok.v)

RECURSIVE ByteLen(_)
ByteLen(b) == IF b = <<>> THEN 0 ELSE TokLen(Head(b)) + ByteLen(Tail(b))

NotWs(tok) == tok.t # "ws"

\* What decoding into interface{} and encoding again makes of a number
\* literal: a float64 printed in its shortest form.
CanonNum(v) ==
    CASE v = "1.0" -> "1"
      [] v = "1e2" -> "100"
      [] OTHER -> v

DecodeValue(tok) == IF tok.t = "num" THEN N(CanonNum(tok.v)) ELSE tok

EmptyMap == [k \in {} |-> Null]

\* The members of an object after its opening brace: key : value pairs
\* separated by commas up to the closing brace that ends the input.  A key
\* that repeats keeps its last value.
RECURSIVE ParseMembers(_, _)
ParseMembers(toks, rb) ==
    IF Len(toks) < 4 THEN [ok |-> FALSE, rb |-> EmptyMap]
    ELSE LET k == toks[1]
             c == toks[2]
             v == toks[3]
             d == toks[4]
             rb2 == (k.v :> DecodeValue(v)) @@ rb
         IN  IF ~(k.t = "str" /\ c = P(":") /\ v.t \in {"str", "num"})
             THEN [ok |-> FALSE, rb |-> EmptyMap]
             ELSE IF d = P("}") /\ Len(toks) = 4
             THEN [ok |-> TRUE, rb |-> rb2]
             ELSE IF d = P(",")
             THEN ParseMembers(SubSeq(toks, 5, Len(toks)), rb2)
             ELSE [ok |-> FALSE, rb |-> EmptyMap]

\* json.Unmarshal(body, &rb) with rb a map[string]interface{}: the body has
\* to be one JSON object or null (null leaves the map nil).
Unmarshal(body) ==
    LET toks == SelectSeq(body, NotWs)
    IN  IF toks = <<>> THEN [ok |-> FALSE, rb |-> EmptyMap]
        ELSE IF toks = <<Null>> THEN [ok |-> TRUE, rb |-> EmptyMap]
        ELSE IF toks = <<P("{"), P("}")>> THEN [ok |-> TRUE, rb |-> EmptyMap]
        ELSE IF Head(toks) = P("{") THEN ParseMembers(Tail(toks), EmptyMap)
        ELSE [ok |-> FALSE, rb |-> EmptyMap]

\* The keys the bodies of the model use, in the byte order json.Marshal
\* sorts map keys by.
KeyOrder == <<"max_tokens", "model", "prompt">>

RECURSIVE MarshalFrom(_, _, _)
MarshalFrom(rb, i, first) ==
    IF i > Len(KeyOrder) THEN <<P("}")>>
    ELSE IF KeyOrder[i] \notin DOMAIN rb THEN MarshalFrom(rb, i + 1, first)
    ELSE (IF first THEN <<>> ELSE <<P(",")>>)
         \o <<S(KeyOrder[i]), P(":"), rb[KeyOrder[i]]>>
         \o MarshalFrom(rb, i + 1, FALSE)

\* json.Marshal(rb): compact, keys sorted.
Marshal(rb) == <<P("{")>> \o MarshalFrom(rb, 1, TRUE)

\* strconv.Itoa for n >= 0: the decimal digits, most significant first.
Digits == <<"0", "1", "2", "3", "4", "5", "6", "7", "8", "9">>

RECURSIVE Itoa(_)
Itoa(n) == IF n < 10 THEN <<Digits[n + 1]>>
           ELSE Itoa(n \div 10) \o <<Digits[(n % 10) + 1]>>

-----------------------------------------------------------------------------
(* Datastore: the model catalog and the pod snapshot. *)

NilModel == [Name |-> "", Criticality |-> "unset", TargetModels |-> <<>>]

FetchModelData(name) ==
    IF name \in DOMAIN models THEN models[name] ELSE NilModel

IsCritical(modelObj) == modelObj.Criticality = "Critical"

SumWeights(targets) ==
    LET RECURSIVE Sum(_)
        Sum(i) == IF i > Len(targets) THEN 0 ELSE targets[i].Weight + Sum(i + 1)
    IN  Sum(1)

\* The entry a draw of randomVal in 0 .. sum-1 lands on: entry i is hit by
\* Weight_i of the values, so it is drawn with probability Weight_i / sum.
RandomWeightedDraw(modelObj, randomVal) ==
    LET targets == modelObj.TargetModels
        RECURSIVE Walk(_, _)
        Walk(i, val) ==
            IF i > Len(targets) THEN ""
            ELSE IF val < targets[i].Weight THEN targets[i].Name
            ELSE Walk(i + 1, val - targets[i].Weight)
    IN  Walk(1, randomVal)

AllPodMetrics == podMetrics

NilPod == [Name |-> 0, Address |-> ""]

-----------------------------------------------------------------------------
(* Filter engine. *)

Nil == [name |-> "nil"]

Node(name, fn, onSuccess, onFailure, onSuccessOrFailure) ==
    [name |-> name, filter |-> fn, nextOnSuccess |-> onSuccess,
     nextOnFailure |-> onFailure, nextOnSuccessOrFailure |-> onSuccessOrFailure]

criticalRequestPredicate(req, pod) == req.Critical

lowQueueingPodPredicate(req, pod) == pod.WaitingQueueSize <= queueingThresholdLoRA

loRAAffinityPredicate(req, pod) == req.ResolvedTargetModel \in pod.ActiveModels

canAcceptNewLoraPredicate(req, pod) ==
    Cardinality(pod.ActiveModels) < pod.MaxActiveModels

lowLoRACostPredicate(req, pod) ==
    \/ req.ResolvedTargetModel \in pod.ActiveModels
    \/ Cardinality(pod.ActiveModels) < pod.MaxActiveModels

noQueueAndLessThanKVCacheThresholdPredicate(queueThreshold, kvThreshold, req, pod) ==
    /\ pod.WaitingQueueSize <= queueThreshold
    /\ pod.KVCacheUsagePercent < kvThreshold

leastQueuingFilterFunc(req, pods) ==
    {p \in pods : \A q \in pods : p.WaitingQueueSize <= q.WaitingQueueSize}

leastKVCacheFilterFunc(req, pods) ==
    {p \in pods : \A q \in pods : p.KVCacheUsagePercent <= q.KVCacheUsagePercent}

Predicate(fn, req, pod) ==
    CASE fn = "criticalRequestPredicate" -> criticalRequestPredicate(req, pod)
      [] fn = "lowQueueingPodPredicate" -> lowQueueingPodPredicate(req, pod)
      [] fn = "loRAAffinityPredicate" -> loRAAffinityPredicate(req, pod)
      [] fn = "canAcceptNewLoraPredicate" -> canAcceptNewLoraPredicate(req, pod)
      [] fn = "lowLoRACostPredicate" -> lowLoRACostPredicate(req, pod)
      [] fn = "noQueueAndLessThanKVCacheThresholdPredicate" ->
            noQueueAndLessThanKVCacheThresholdPredicate(
                queueThresholdCritical, kvCacheThreshold, req, pod)

\* A predicate turned into a filter: all the pods that match.
toFilterFunc(fn, req, pods) ==
    [pods |-> {p \in pods : Predicate(fn, req, p)}, err |-> "nil"]

\* The function of a node, applied to a pod set.
Apply(fn, req, pods) ==
    CASE fn = "leastQueuingFilterFunc" ->
            [pods |-> leastQueuingFilterFunc(req, pods), err |-> "nil"]
      [] fn = "leastKVCacheFilterFunc" ->
            [pods |-> leastKVCacheFilterFunc(req, pods), err |-> "nil"]
      [] fn = "dropRequest" ->
            [pods |-> {}, err |-> "ResourceExhausted"]
      [] OTHER -> toFilterFunc(fn, req, pods)

\* The child a node hands over to after success or failure, Nil if none.
NextFilter(node, success) ==
    IF success
    THEN IF node.nextOnSuccess # Nil THEN node.nextOnSuccess
         ELSE node.nextOnSuccessOrFailure
    ELSE IF node.nextOnFailure # Nil THEN node.nextOnFailure
         ELSE node.nextOnSuccessOrFailure

\* NextInput handing the filtered result on after a failure too.
NextInputFiltered(success, filtered, pods) == filtered

\* The pod set the child is evaluated on: the subset after success, the
\* input of the node after failure.
NextInput(success, filtered, pods) == IF success THEN filtered ELSE pods

\* filter.Filter: the result of the tree below node on pods, with the
\* nodes visited (node, input, output, error) in order.
RECURSIVE Filter(_, _, _)
Filter(node, req, pods) ==
    LET r == Apply(node.filter, req, pods)
        success == r.err = "nil" /\ r.pods # {}
        next == NextFilter(node, success)
        visit == [node |-> node, input |-> pods,
                  output |-> r.pods, err |-> r.err]
    IN  IF next = Nil
        THEN [pods |-> r.pods, err |-> r.err, trace |-> <<visit>>]
        ELSE LET rest == Filter(next, req, NextInput(success, r.pods, pods))
             IN  [pods |-> rest.pods, err |-> rest.err,
                  trace |-> <<visit>> \o rest.trace]

-----------------------------------------------------------------------------
(* Scheduler: the policy tree. *)

leastKVCacheFilter ==
    Node("least KV cache percent", "leastKVCacheFilterFunc", Nil, Nil, Nil)

\* queueLoRAAndKVCacheFilter without the least-queuing step.
queueLoRAAndKVCacheFilterNoQueue ==
    Node("low cost LoRA", "lowLoRACostPredicate", Nil, Nil, leastKVCacheFilter)

queueLoRAAndKVCacheFilter ==
    Node("least queuing", "leastQueuingFilterFunc", Nil, Nil,
         Node("low cost LoRA", "lowLoRACostPredicate", Nil, Nil,
              leastKVCacheFilter))

queueAndKVCacheFilter ==
    Node("least queuing", "leastQueuingFilterFunc", Nil, Nil, leastKVCacheFilter)

\* lowLatencyFilter without the LoRA affinity step.
lowLatencyFilterNoAffinity ==
    Node("low queueing filter", "lowQueueingPodPredicate",
         queueAndKVCacheFilter,
         queueLoRAAndKVCacheFilter,
         Nil)

\* lowLatencyFilter ending at the can-accept filter.
lowLatencyFilterCanAcceptLeaf ==
    Node("low queueing filter", "lowQueueingPodPredicate",
         Node("affinity LoRA", "loRAAffinityPredicate",
              queueAndKVCacheFilter,
              Node("can accept LoRA Adapter", "canAcceptNewLoraPredicate",
                   Nil, Nil, Nil),
              Nil),
         queueLoRAAndKVCacheFilter,
         Nil)

lowLatencyFilter ==
    Node("low queueing filter", "lowQueueingPodPredicate",
         Node("affinity LoRA", "loRAAffinityPredicate",
              queueAndKVCacheFilter,
              Node("can accept LoRA Adapter", "canAcceptNewLoraPredicate",
                   Nil, Nil, queueAndKVCacheFilter),
              Nil),
         queueLoRAAndKVCacheFilter,
         Nil)

dropRequestFilter == Node("drop request", "dropRequest", Nil, Nil, Nil)

\* sheddableRequestFilter falling back to the heavy branch instead of
\* dropping.
sheddableRequestFilterNoDrop ==
    Node("has capacity for sheddable requests",
         "noQueueAndLessThanKVCacheThresholdPredicate",
         queueLoRAAndKVCacheFilter,
         queueLoRAAndKVCacheFilter,
         Nil)

\* sheddableRequestFilter admitting by the low-queueing predicate.
sheddableRequestFilterLowQueueing ==
    Node("has capacity for sheddable requests",
         "lowQueueingPodPredicate",
         queueLoRAAndKVCacheFilter,
         dropRequestFilter,
         Nil)

sheddableRequestFilter ==
    Node("has capacity for sheddable requests",
         "noQueueAndLessThanKVCacheThresholdPredicate",
         queueLoRAAndKVCacheFilter,
         dropRequestFilter,
         Nil)

defaultFilter ==
    Node("critical request", "criticalRequestPredicate",
         lowLatencyFilter, sheddableRequestFilter, Nil)

\* Schedule without the test of the tree's error: every empty result is
\* reported as a success with zero pods.
ScheduleIgnoresError(req) ==
    LET r == Filter(schedulerFilter, req, AllPodMetrics)
    IN  IF r.pods = {}
        THEN [candidates |-> {}, err |-> "filter returned zero pods on success",
              trace |-> r.trace]
        ELSE [candidates |-> r.pods, err |-> "nil", trace |-> r.trace]

\* Scheduler.Schedule up to the random pick: the candidates (none on an
\* error), the error and the filters visited.
Schedule(req) ==
    LET r == Filter(schedulerFilter, req, AllPodMetrics)
    IN  IF r.err # "nil"
        THEN [candidates |-> {}, err |-> r.err, trace |-> r.trace]
        ELSE IF r.pods = {}
        THEN [candidates |-> {}, err |-> "filter returned zero pods on success",
              trace |-> r.trace]
        ELSE [candidates |-> r.pods, err |-> "nil", trace |-> r.trace]

\* What a Schedule call can return: the zero pod with the error, or any
\* one of the candidates (rand.Intn picks the index).
ScheduleOutcomes(req) ==
    LET s == Schedule(req)
    IN  IF s.err # "nil"
        THEN {[pod |-> NilPod, err |-> s.err, trace |-> s.trace]}
        ELSE {[pod |-> [Name |-> pm.Name, Address |-> pm.Address], err |-> "nil",
               trace |-> s.trace] : pm \in s.candidates}

-----------------------------------------------------------------------------
(* Request handler. *)

DefaultTargetEndpointKey == "x-gateway-destination-endpoint"

\* targetEndpointKey fixed to the header name of an earlier version
\* instead of the configured key.
targetEndpointKeyHardCoded == "target-pod"

targetEndpointKey == DefaultTargetEndpointKey

NoResp == [kind |-> "none"]

NilReq == [Model |-> "", ResolvedTargetModel |-> "", Critical |-> FALSE]

NewRequestContext ==
    [Model |-> "", ResolvedTargetModel |-> "", RequestSize |-> 0,
     TargetPod |-> NilPod]

NoSched == [pod |-> NilPod, err |-> "nil", trace |-> <<>>]

\* rb["model"].(string)
HasStringModel(rb) == "model" \in DOMAIN rb /\ rb["model"].t = "str"

\* The values rand.Int31n(weights) can return for the draw.
DrawRange(modelObj) ==
    IF Len(modelObj.TargetModels) > 0
    THEN 0 .. (SumWeights(modelObj.TargetModels) - 1)
    ELSE {0}

\* ResolveTargetModel with the test for target models inverted.
ResolveTargetModelInverted(model, modelObj, randomVal) ==
    IF Len(modelObj.TargetModels) > 0
    THEN model
    ELSE RandomWeightedDraw(modelObj, randomVal)

\* The target model name: drawn from TargetModels when there are any,
\* the requested model otherwise.
ResolveTargetModel(model, modelObj, randomVal) ==
    IF Len(modelObj.TargetModels) > 0
    THEN RandomWeightedDraw(modelObj, randomVal)
    ELSE model

LLMRequest(model, modelName, modelObj) ==
    [Model |-> model, ResolvedTargetModel |-> modelName,
     Critical |-> IsCritical(modelObj)]

\* RequestBodyOut re-encoding the body whatever the target model.
RequestBodyAlwaysMarshalled(body, rb, req) ==
    Marshal([rb EXCEPT !["model"] = S(req.ResolvedTargetModel)])

\* The outgoing body: re-encoded with the model replaced when the target
\* differs from the requested model, the incoming bytes otherwise.
RequestBodyOut(body, rb, req) ==
    IF req.Model # req.ResolvedTargetModel
    THEN Marshal([rb EXCEPT !["model"] = S(req.ResolvedTargetModel)])
    ELSE body

\* ContentLength taken from the incoming body.
ContentLengthOfIncoming(body, requestBody) == Itoa(ByteLen(body))

\* The length the Content-Length header announces.
ContentLength(body, requestBody) == Itoa(ByteLen(requestBody))

SetHeaders(targetPod, body, requestBody) ==
    << [Key |-> targetEndpointKey, RawValue |-> targetPod.Address],
       [Key |-> "Content-Length", RawValue |-> ContentLength(body, requestBody)] >>

\* MetadataValue read from a pod that was never assigned.
MetadataValueUnset(targetPod) == NilPod.Address

\* The value of the dynamic-metadata field.
MetadataValue(targetPod) == targetPod.Address

BodyResponse(targetPod, body, requestBody) ==
    [kind |-> "RequestBody",
     setHeaders |-> SetHeaders(targetPod, body, requestBody),
     body |-> requestBody,
     dynamicMetadata |-> (targetEndpointKey :> MetadataValue(targetPod))]

\* The headers response leaving the route cache of the proxy alone.
HeadersResponseKeepsRouteCache ==
    [kind |-> "RequestHeaders", clearRouteCache |-> FALSE]

HeadersResponse == [kind |-> "RequestHeaders", clearRouteCache |-> TRUE]

\* The handler returns (nil, error): the stream ends.
ReturnError(msg) ==
    /\ resp' = NoResp
    /\ err' = msg
    /\ streamState' = "closed"

HandleRequestHeaders ==
    /\ streamState = "S0"
    /\ resp' = HeadersResponse
    /\ err' = "nil"
    /\ streamState' = "S1"
    /\ UNCHANGED <<models, podMetrics, reqBody, reqCtx, llmReq, sched,
                   scheduleCalls, schedulerFilter, streams>>
    /\ UNCHANGED metricVars

\* ParseRequest without the check that the model was found.
ParseRequestNoLookupCheck(body) ==
    LET u == Unmarshal(body)
        none == [rb |-> EmptyMap, model |-> "", modelObj |-> NilModel]
    IN  IF ~u.ok
        THEN [err |-> "failed to unmarshal request body"] @@ none
        ELSE IF ~HasStringModel(u.rb)
        THEN [err |-> "model not found in request"] @@ none
        ELSE [err |-> "nil", rb |-> u.rb, model |-> u.rb["model"].v,
              modelObj |-> FetchModelData(u.rb["model"].v)]

\* The request the body asks for: the decoded body, the model named and
\* its InferenceModel, or the error that ends the handler early.
ParseRequest(body) ==
    LET u == Unmarshal(body)
        none == [rb |-> EmptyMap, model |-> "", modelObj |-> NilModel]
    IN  IF ~u.ok
        THEN [err |-> "failed to unmarshal request body"] @@ none
        ELSE IF ~HasStringModel(u.rb)
        THEN [err |-> "model not found in request"] @@ none
        ELSE IF FetchModelData(u.rb["model"].v) = NilModel
        THEN [err |-> "error finding a model object in InferenceModel"] @@ none
        ELSE [err |-> "nil", rb |-> u.rb, model |-> u.rb["model"].v,
              modelObj |-> FetchModelData(u.rb["model"].v)]

\* An outcome of the handler that ends before the scheduler is called.
EarlyError(msg, ctx) ==
    [err |-> msg, resp |-> NoResp, reqCtx |-> ctx, llmReq |-> NilReq,
     sched |-> NoSched, calls |-> 0]

\* Everything HandleRequestBody can return for a body, by the draw and the
\* pick: the error, the response, the request context it leaves, and the
\* LLMRequest and Schedule call it made (calls is 0 when it made none).
HandleRequestBodyOutcomes(body, ctx) ==
    LET parsed == ParseRequest(body)
    IN  IF parsed.err # "nil"
        THEN {EarlyError(parsed.err, ctx)}
        ELSE
        UNION {
          LET modelName == ResolveTargetModel(parsed.model, parsed.modelObj, randomVal)
              req == LLMRequest(parsed.model, modelName, parsed.modelObj)
              requestBody == RequestBodyOut(body, parsed.rb, req)
          IN  IF modelName = ""
              THEN {EarlyError("error getting target model name", ctx)}
              ELSE
              { IF s.err # "nil"
                THEN [err |-> "failed to find target pod", resp |-> NoResp,
                      reqCtx |-> ctx, llmReq |-> req, sched |-> s, calls |-> 1]
                ELSE [err |-> "nil",
                      resp |-> BodyResponse(s.pod, body, requestBody),
                      reqCtx |-> [Model |-> req.Model,
                                  ResolvedTargetModel |-> req.ResolvedTargetModel,
                                  RequestSize |-> ByteLen(body),
                                  TargetPod |-> s.pod],
                      llmReq |-> req, sched |-> s, calls |-> 1]
                : s \in ScheduleOutcomes(req) }
          : randomVal \in DrawRange(parsed.modelObj) }

HandleRequestBody ==
    /\ streamState = "S1"
    /\ UNCHANGED <<models, podMetrics, reqBody, schedulerFilter, streams>>
    /\ UNCHANGED metricVars
    /\ \E o \in HandleRequestBodyOutcomes(reqBody, reqCtx) :
         /\ IF o.err # "nil"
            THEN ReturnError(o.err)
            ELSE /\ resp' = o.resp
                 /\ err' = "nil"
                 /\ streamState' = "S2"
         /\ reqCtx' = o.reqCtx
         /\ IF o.calls = 0
            THEN UNCHANGED <<llmReq, sched, scheduleCalls>>
            ELSE /\ llmReq' = o.llmReq
                 /\ sched' = o.sched
                 /\ scheduleCalls' = scheduleCalls + o.calls

-----------------------------------------------------------------------------
(* The inputs the model draws from. *)

Target(name, weight) == [Name |-> name, Weight |-> weight]

InferenceModel(name, criticality, targets) ==
    [Name |-> name, Criticality |-> criticality, TargetModels |-> targets]

\* No model has target models; m1 leaves its criticality unset.
CatalogPlain ==
    ("m1" :> InferenceModel("m1", "unset", <<>>))
    @@ ("m2" :> InferenceModel("m2", "Critical", <<>>))

\* Both models have weighted target models.
CatalogWeighted ==
    ("m1" :> InferenceModel("m1", "Critical",
                            <<Target("m1-a", 0), Target("m1-b", 10)>>))
    @@ ("m2" :> InferenceModel("m2", "Sheddable",
                               <<Target("m2-a", 1), Target("m2-b", 3)>>))

Catalogs == {CatalogPlain, CatalogWeighted}

Bodies == {
    \* {"model":"m1","prompt":"hi"}
    <<P("{"), S("model"), P(":"), S("m1"), P(","), S("prompt"), P(":"), S("hi"), P("}")>>,
    \* {"model":"m1"}
    <<P("{"), S("model"), P(":"), S("m1"), P("}")>>,
    \* {"prompt":"hi", "model":"m2"}
    <<P("{"), S("prompt"), P(":"), S("hi"), P(","), W, S("model"), P(":"), S("m2"), P("}")>>,
    \* {"model":"m2","max_tokens":1.0}
    <<P("{"), S("model"), P(":"), S("m2"), P(","), S("max_tokens"), P(":"), N("1.0"), P("}")>>,
    \* {"model":"m-xyz"}
    <<P("{"), S("model"), P(":"), S("m-xyz"), P("}")>>,
    \* {"prompt":"hi"}
    <<P("{"), S("prompt"), P(":"), S("hi"), P("}")>>,
    \* {"model":7}
    <<P("{"), S("model"), P(":"), N("7"), P("}")>>,
    \* ["m1"]
    <<P("["), S("m1"), P("]")>>,
    \* {"model":"m1"
    <<P("{"), S("model"), P(":"), S("m1")>>,
    \* null
    <<Null>>
}

QueueSizes == {5, 6, 80}
KVCachePercents == {10, 80}
AdapterSets == {{}, {"m1-b"}}

Addresses == <<"10.0.0.1:8000", "10.0.0.2:8000", "10.0.0.3:8000", "10.0.0.4:8000">>

Profiles ==
    [WaitingQueueSize : QueueSizes, KVCacheUsagePercent : KVCachePercents,
     ActiveModels : AdapterSets, MaxActiveModels : {1}]

PodMetricsOf(i, m) ==
    [Name |-> i, Address |-> Addresses[i],
     WaitingQueueSize |-> m.WaitingQueueSize,
     KVCacheUsagePercent |-> m.KVCacheUsagePercent,
     ActiveModels |-> m.ActiveModels,
     MaxActiveModels |-> m.MaxActiveModels]

\* The pools of up to MaxPods pods, each with one of the metric profiles.
Snapshots ==
    UNION { { {PodMetricsOf(i, f[i]) : i \in 1 .. k} : f \in [1 .. k -> Profiles] }
            : k \in 0 .. MaxPods }

Profile(queue, kv, adapters, max) ==
    [WaitingQueueSize |-> queue, KVCacheUsagePercent |-> kv,
     ActiveModels |-> adapters, MaxActiveModels |-> max]

\* One idle pod at 10.0.0.1:8000.
SnapshotIdlePod == {PodMetricsOf(1, Profile(0, 10, {}, 1))}

\* Two idle pods, the first with the adapter m1-b loaded, the second with
\* none and room for one.
SnapshotAffinity ==
    {PodMetricsOf(1, Profile(0, 10, {"m1-b"}, 1)),
     PodMetricsOf(2, Profile(0, 10, {}, 1))}

\* Two pods with long queues: 120 waiting at 0.2 KV-cache use, 80 at 0.5.
SnapshotHighQueues ==
    {PodMetricsOf(1, Profile(120, 20, {}, 1)),
     PodMetricsOf(2, Profile(80, 50, {}, 1))}

HighQueueProfiles ==
    [WaitingQueueSize : {80, 120}, KVCacheUsagePercent : {20, 50},
     ActiveModels : AdapterSets, MaxActiveModels : {1}]

\* The pools of two pods that both queue beyond queueingThresholdLoRA.
HighQueueSnapshots ==
    { {PodMetricsOf(1, a), PodMetricsOf(2, b)} :
        a \in HighQueueProfiles, b \in HighQueueProfiles }

ScenarioSnapshots == {SnapshotIdlePod, SnapshotAffinity} \cup HighQueueSnapshots

Labels == {<<"m10", "t10">>, <<"m10", "t11">>, <<"m20", "t20">>}

NoCall == [op |-> "none", label |-> <<"", "">>, a |-> 0, b |-> 0,
           err |-> "nil", n |-> 0]

EmptyHistogram == [count |-> 0, sum |-> 0]

MetricsInit ==
    /\ requestLatencies = [l \in Labels |-> EmptyHistogram]
    /\ inputTokens = [l \in Labels |-> EmptyHistogram]
    /\ outputTokens = [l \in Labels |-> EmptyHistogram]
    /\ lastCall = NoCall
    /\ tokenCalls = [h \in {"input", "output"} |-> [l \in Labels |-> 0]]

\* NewScheduler installs the default tree.
SchedulerInit == schedulerFilter = defaultFilter

Streams == 1 .. MaxStreams

\* A stream as opened by the proxy: its state, the messages handled so
\* far, the responses sent so far, its request context and its error.
NewStream == [state |-> "S0", steps |-> <<>>, log |-> <<>>,
              reqCtx |-> NewRequestContext, err |-> "nil"]

StreamsInit == streams = [sid \in Streams |-> NewStream]

Goroutines == 1 .. MaxGoroutines

\* The metrics Register registers, in its order.
Metrics ==
    <<"requestCounter", "requestLatencies", "requestSizes", "responseSizes",
      "inputTokens", "outputTokens", "inferencePoolAvgKVCache",
      "inferencePoolAvgQueueSize">>

NoOne == [goroutine |-> 0, call |-> 0]

RegisterInit ==
    /\ registry = [by |-> [i \in DOMAIN Metrics |-> NoOne],
                   attempts |-> [i \in DOMAIN Metrics |-> 0],
                   panicked |-> FALSE]
    /\ registerMetrics = [done |-> FALSE, m |-> 0]
    /\ callers = [g \in Goroutines |->
                    [pc |-> "idle", calls |-> 0, returns |-> 0, next |-> 1,
                     waited |-> FALSE]]

StreamInit ==
    /\ streamState = "S0"
    /\ resp = NoResp
    /\ err = "nil"
    /\ reqCtx = NewRequestContext
    /\ llmReq = NilReq
    /\ sched = NoSched
    /\ scheduleCalls = 0

Init ==
    /\ models \in Catalogs
    /\ podMetrics \in Snapshots \cup ScenarioSnapshots
    /\ reqBody \in Bodies
    /\ StreamInit
    /\ SchedulerInit
    /\ StreamsInit
    /\ MetricsInit
    /\ RegisterInit

Next ==
    \/ HandleRequestHeaders
    \/ HandleRequestBody

Spec == Init /\ [][Next]_vars

-----------------------------------------------------------------------------
(* Metric recorders. *)

\* HistogramVec.WithLabelValues(label).Observe(v)
Observe(hist, label, v) ==
    [hist EXCEPT ![label] = [count |-> @.count + 1, sum |-> @.sum + v]]

\* complete.After(received)
After(complete, received) == complete > received

\* RecordRequestLatencies rejecting only a completion before the receipt.
RecordRequestLatenciesAcceptsEqual(hist, label, received, complete) ==
    IF After(received, complete)
    THEN [hist |-> hist, err |-> "invalid request latency values"]
    ELSE [hist |-> Observe(hist, label, complete - received), err |-> "nil"]

\* RecordRequestLatencies: the histogram after the call and the error.
RecordRequestLatencies(hist, label, received, complete) ==
    IF ~After(complete, received)
    THEN [hist |-> hist, err |-> "invalid request latency values"]
    ELSE [hist |-> Observe(hist, label, complete - received), err |-> "nil"]

\* RecordInputTokens without the guard on the size.
RecordInputTokensUnguarded(hist, label, size) == Observe(hist, label, size)

\* RecordInputTokens: the histogram after the call.
RecordInputTokens(hist, label, size) ==
    IF size > 0 THEN Observe(hist, label, size) ELSE hist

\* RecordOutputTokens: the histogram after the call.
RecordOutputTokens(hist, label, size) ==
    IF size > 0 THEN Observe(hist, label, size) ELSE hist

Call(op, label, a, b, e) ==
    [op |-> op, label |-> label, a |-> a, b |-> b, err |-> e,
     n |-> lastCall.n + 1]

\* The calls with size > 0 made so far, counted by the caller.
CountCall(h, label, size) ==
    IF size > 0
    THEN [tokenCalls EXCEPT ![h][label] = @ + 1]
    ELSE tokenCalls

CallRecordRequestLatencies ==
    /\ lastCall.n < MaxCalls
    /\ \E label \in Labels, received \in 0 .. MaxTime, complete \in 0 .. MaxTime :
         LET r == RecordRequestLatencies(requestLatencies, label, received, complete)
         IN  /\ requestLatencies' = r.hist
             /\ lastCall' = Call("RecordRequestLatencies", label, received,
                                 complete, r.err)
    /\ UNCHANGED <<inputTokens, outputTokens, tokenCalls>>
    /\ UNCHANGED registerVars
    /\ UNCHANGED handlerVars

CallRecordInputTokens ==
    /\ lastCall.n < MaxCalls
    /\ \E label \in Labels, size \in 0 .. MaxTokens :
         /\ inputTokens' = RecordInputTokens(inputTokens, label, size)
         /\ tokenCalls' = CountCall("input", label, size)
         /\ lastCall' = Call("RecordInputTokens", label, size, 0, "nil")
    /\ UNCHANGED <<requestLatencies, outputTokens>>
    /\ UNCHANGED registerVars
    /\ UNCHANGED handlerVars

CallRecordOutputTokens ==
    /\ lastCall.n < MaxCalls
    /\ \E label \in Labels, size \in 0 .. MaxTokens :
         /\ outputTokens' = RecordOutputTokens(outputTokens, label, size)
         /\ tokenCalls' = CountCall("output", label, size)
         /\ lastCall' = Call("RecordOutputTokens", label, size, 0, "nil")
    /\ UNCHANGED <<requestLatencies, inputTokens>>
    /\ UNCHANGED registerVars
    /\ UNCHANGED handlerVars

InitMetrics ==
    /\ models = CatalogPlain
    /\ podMetrics = {}
    /\ reqBody = <<Null>>
    /\ StreamInit
    /\ SchedulerInit
    /\ StreamsInit
    /\ MetricsInit
    /\ RegisterInit

NextMetrics ==
    \/ CallRecordRequestLatencies
    \/ CallRecordInputTokens
    \/ CallRecordOutputTokens

SpecMetrics == InitMetrics /\ [][NextMetrics]_vars

-----------------------------------------------------------------------------
(* The scheduler alone: Schedule called once on a Scheduler whose filter
   field holds one of the trees of the package or a single predicate
   filter, for a request and a snapshot. *)

\* A filter with no successor: the pods holding the resolved target model.
affinityFilter == Node("affinity LoRA", "loRAAffinityPredicate", Nil, Nil, Nil)

FilterTrees ==
    {defaultFilter, lowLatencyFilter, sheddableRequestFilter,
     queueAndKVCacheFilter, affinityFilter}

ScheduleRequests ==
    {[Model |-> "m1", ResolvedTargetModel |-> "m1-b", Critical |-> TRUE],
     [Model |-> "m2", ResolvedTargetModel |-> "m2", Critical |-> TRUE],
     [Model |-> "m1", ResolvedTargetModel |-> "m1", Critical |-> FALSE],
     [Model |-> "m2", ResolvedTargetModel |-> "m2-b", Critical |-> FALSE]}

CallSchedule ==
    /\ scheduleCalls = 0
    /\ sched' \in ScheduleOutcomes(llmReq)
    /\ scheduleCalls' = scheduleCalls + 1
    /\ UNCHANGED <<models, podMetrics, streamState, reqBody, resp, err, reqCtx,
                   llmReq, schedulerFilter, streams>>
    /\ UNCHANGED metricVars

InitSchedule ==
    /\ models = CatalogPlain
    /\ podMetrics \in Snapshots \cup ScenarioSnapshots
    /\ reqBody = <<Null>>
    /\ streamState = "S1"
    /\ resp = NoResp
    /\ err = "nil"
    /\ reqCtx = NewRequestContext
    /\ llmReq \in ScheduleRequests
    /\ sched = NoSched
    /\ scheduleCalls = 0
    /\ schedulerFilter \in FilterTrees
    /\ StreamsInit
    /\ MetricsInit
    /\ RegisterInit

NextSchedule == CallSchedule

SpecSchedule == InitSchedule /\ [][NextSchedule]_vars

-----------------------------------------------------------------------------
(* Register: goroutines calling metrics.Register, each MustRegister a step
   of its own. *)

\* Register running its function on every call.
OnceAlwaysRuns(once) == TRUE

\* registerMetrics.Do runs its function only while the Once is not done.
OnceNotDone(once) == ~once.done

\* legacyregistry.MustRegister: a metric already registered panics.
MustRegister(reg, i, who) ==
    IF reg.by[i] # NoOne
    THEN [reg EXCEPT !.attempts[i] = @ + 1, !.panicked = TRUE]
    ELSE [reg EXCEPT !.attempts[i] = @ + 1, !.by[i] = who]

\* A goroutine calls Register; Do loads the done flag and returns at once
\* when it is set.
CallRegister(g) ==
    /\ callers[g].pc = "idle"
    /\ callers[g].calls < MaxRegisterCalls
    /\ callers' = [callers EXCEPT
                     ![g].calls = @ + 1,
                     ![g].pc = IF OnceNotDone(registerMetrics) THEN "lock" ELSE "idle",
                     ![g].returns = IF OnceNotDone(registerMetrics) THEN @ ELSE @ + 1]
    /\ UNCHANGED <<registry, registerMetrics>>
    /\ UNCHANGED <<handlerVars, recordVars>>

\* The slow path of Do: take the mutex of the Once and test the flag again.
OnceLock(g) ==
    /\ callers[g].pc = "lock"
    /\ registerMetrics.m = 0
    /\ IF OnceNotDone(registerMetrics)
       THEN /\ registerMetrics' = [registerMetrics EXCEPT !.m = g]
            /\ callers' = [callers EXCEPT ![g].pc = "run", ![g].next = 1]
       ELSE /\ UNCHANGED registerMetrics
            /\ callers' = [callers EXCEPT ![g].pc = "idle", ![g].returns = @ + 1,
                                          ![g].waited = TRUE]
    /\ UNCHANGED registry
    /\ UNCHANGED <<handlerVars, recordVars>>

\* The next MustRegister call of the function passed to Do; a panic leaves
\* the Once done and unlocked by the deferred calls of Do.
RegisterNext(g) ==
    /\ callers[g].pc = "run"
    /\ callers[g].next <= Len(Metrics)
    /\ registry' = MustRegister(registry, callers[g].next,
                                [goroutine |-> g, call |-> callers[g].calls])
    /\ IF registry'.panicked
       THEN /\ callers' = [callers EXCEPT ![g].pc = "panicked"]
            /\ registerMetrics' = [done |-> TRUE, m |-> 0]
       ELSE /\ callers' = [callers EXCEPT ![g].next = @ + 1]
            /\ UNCHANGED registerMetrics
    /\ UNCHANGED <<handlerVars, recordVars>>

\* The function returned: Do sets the flag, unlocks, and Register returns.
RegisterReturn(g) ==
    /\ callers[g].pc = "run"
    /\ callers[g].next > Len(Metrics)
    /\ registerMetrics' = [done |-> TRUE, m |-> 0]
    /\ callers' = [callers EXCEPT ![g].pc = "idle", ![g].returns = @ + 1]
    /\ UNCHANGED registry
    /\ UNCHANGED <<handlerVars, recordVars>>

NextRegister ==
    \E g \in Goroutines :
        \/ CallRegister(g)
        \/ OnceLock(g)
        \/ RegisterNext(g)
        \/ RegisterReturn(g)

SpecRegister == InitMetrics /\ [][NextRegister]_vars

-----------------------------------------------------------------------------
(* Concurrent streams: each stream is served by its own goroutine, which handles
   the messages of the stream one at a time; the goroutines share the datastore
   and the scheduler only. *)

StreamBodies == {
    \* {"model":"m1"}
    <<P("{"), S("model"), P(":"), S("m1"), P("}")>>,
    \* {"model":"m-xyz"}
    <<P("{"), S("model"), P(":"), S("m-xyz"), P("}")>>,
    \* {"model":"m1"
    <<P("{"), S("model"), P(":"), S("m1")>>
}

\* No pod, one idle pod, one pod with six requests waiting, two idle pods.
StreamSnapshots ==
    {{}, SnapshotIdlePod, {PodMetricsOf(1, Profile(6, 10, {}, 1))},
     SnapshotAffinity}

\* The number of response-body chunks the stream has observed.
Chunks(st) ==
    Cardinality({i \in DOMAIN st.steps : st.steps[i] = "response_body"})

\* The stream handled a message of the given kind.
Handled(st, kind) == \E i \in DOMAIN st.steps : st.steps[i] = kind

\* S0, request-headers message: the headers response, then S1.
StreamRequestHeaders(sid) ==
    /\ streams[sid].state = "S0"
    /\ streams' = [streams EXCEPT
                     ![sid].state = "S1",
                     ![sid].steps = Append(@, "request_headers"),
                     ![sid].log = Append(@, HeadersResponse)]
    /\ UNCHANGED <<streamVars, metricVars>>

\* S1, request-body message: HandleRequestBody; its error closes the
\* stream, its response is sent and the stream moves on to S2.
StreamRequestBody(sid) ==
    /\ streams[sid].state = "S1"
    /\ \E body \in StreamBodies :
         \E o \in HandleRequestBodyOutcomes(body, streams[sid].reqCtx) :
            streams' = [streams EXCEPT
                          ![sid].state = IF o.err # "nil" THEN "closed" ELSE "S2",
                          ![sid].steps = Append(@, "request_body"),
                          ![sid].log = IF o.err # "nil" THEN @ ELSE Append(@, o.resp),
                          ![sid].reqCtx = o.reqCtx,
                          ![sid].err = o.err]
    /\ UNCHANGED <<streamVars, metricVars>>

\* S2, response-headers message: observed, nothing is routed.
StreamResponseHeaders(sid) ==
    /\ streams[sid].state = "S2"
    /\ ~Handled(streams[sid], "response_headers")
    /\ streams' = [streams EXCEPT ![sid].steps = Append(@, "response_headers")]
    /\ UNCHANGED <<streamVars, metricVars>>

\* S2, a response-body chunk: observed.
StreamResponseBody(sid) ==
    /\ streams[sid].state = "S2"
    /\ Handled(streams[sid], "response_headers")
    /\ Chunks(streams[sid]) < MaxChunks
    /\ streams' = [streams EXCEPT ![sid].steps = Append(@, "response_body")]
    /\ UNCHANGED <<streamVars, metricVars>>

\* The proxy ends the stream.
StreamEnd(sid) ==
    /\ streams[sid].state \in {"S0", "S1", "S2"}
    /\ streams' = [streams EXCEPT ![sid].state = "end",
                                  ![sid].steps = Append(@, "end")]
    /\ UNCHANGED <<streamVars, metricVars>>

InitStreams ==
    /\ models = CatalogPlain
    /\ podMetrics \in StreamSnapshots
    /\ reqBody = <<Null>>
    /\ StreamInit
    /\ SchedulerInit
    /\ StreamsInit
    /\ MetricsInit
    /\ RegisterInit

NextStreams ==
    \E sid \in Streams :
        \/ StreamRequestHeaders(sid)
        \/ StreamRequestBody(sid)
        \/ StreamResponseHeaders(sid)
        \/ StreamResponseBody(sid)
        \/ StreamEnd(sid)

SpecStreams == InitStreams /\ [][NextStreams]_vars

-----------------------------------------------------------------------------
(* Properties. *)

\* The request-body step of the stream emitted its response.
Emitted == resp.kind = "RequestBody"

\* The scheduler was called for the request of the stream.
Scheduled == scheduleCalls > 0

\* A pod of the snapshot has room for a sheddable request.
SomePodAdmits ==
    \E p \in podMetrics :
        /\ p.WaitingQueueSize <= queueThresholdCritical
        /\ p.KVCacheUsagePercent < kvCacheThreshold

\* The names of the filters the last Schedule call evaluated.
Visited == {sched.trace[i].node.name : i \in DOMAIN sched.trace}

\* A visit failed: an empty result or an error.
Failed(v) == v.err # "nil" \/ v.output = {}

\* The values of the headers set under key.
HeaderValues(key) ==
    {resp.setHeaders[i].RawValue :
        i \in {j \in DOMAIN resp.setHeaders : resp.setHeaders[j].Key = key}}

DigitValue(d) == CHOOSE n \in 0 .. 9 : Digits[n + 1] = d

\* The number a sequence of decimal digits denotes.
RECURSIVE Atoi(_)
Atoi(ds) ==
    IF ds = <<>> THEN 0
    ELSE 10 * Atoi(SubSeq(ds, 1, Len(ds) - 1)) + DigitValue(ds[Len(ds)])

\* C1: a sheddable request that finds no pod with WaitingQueueSize <= 5 and
\* KVCacheUsagePercent < 0.8 gets no pod and the resource-exhausted error
\* from Schedule, and the handler returns an error and emits nothing.
C1_SheddableDropped ==
    (Scheduled /\ ~llmReq.Critical /\ ~SomePodAdmits)
        => /\ sched.pod = NilPod
           /\ sched.err = "ResourceExhausted"
           /\ err # "nil"
           /\ resp = NoResp
           /\ streamState = "closed"

C1_Witness ==
    /\ Scheduled /\ ~llmReq.Critical /\ ~SomePodAdmits
    /\ podMetrics # {}
    /\ sched.err = "ResourceExhausted"

\* C2: for a Critical request, whatever the snapshot (the empty one
\* included), neither the sheddable admission filter nor the drop filter is
\* evaluated and Schedule does not return the resource-exhausted error.
C2_CriticalNeverSheddable ==
    (Scheduled /\ llmReq.Critical)
        => /\ "has capacity for sheddable requests" \notin Visited
           /\ "drop request" \notin Visited
           /\ sched.err # "ResourceExhausted"

\* C3: in every evaluation of the filter tree, a node that fails hands its
\* own input to its nextOnFailure or nextOnSuccessOrFailure child, a node
\* that succeeds hands the returned subset to its nextOnSuccess or
\* nextOnSuccessOrFailure child, and the evaluation ends only at a node
\* with no child for its outcome.
C3_ChildInput ==
    \A i \in DOMAIN sched.trace :
        LET v == sched.trace[i]
            child == IF Failed(v)
                     THEN IF v.node.nextOnFailure # Nil THEN v.node.nextOnFailure
                          ELSE v.node.nextOnSuccessOrFailure
                     ELSE IF v.node.nextOnSuccess # Nil THEN v.node.nextOnSuccess
                          ELSE v.node.nextOnSuccessOrFailure
        IN  IF i = Len(sched.trace)
            THEN child = Nil
            ELSE /\ sched.trace[i + 1].node = child
                 /\ sched.trace[i + 1].input =
                        IF Failed(v) THEN v.input ELSE v.output

C3_Witness ==
    \E i \in DOMAIN sched.trace :
        /\ i < Len(sched.trace)
        /\ Failed(sched.trace[i])
        /\ sched.trace[i].input # {}
        /\ sched.trace[i + 1].input = sched.trace[i].input

\* C4: when the handler succeeds and the resolved target model equals the
\* requested model, the body of the body mutation is the incoming body,
\* byte for byte.
C4_PassThroughIdentical ==
    (Emitted /\ llmReq.ResolvedTargetModel = llmReq.Model) => resp.body = reqBody

C4_Witness ==
    /\ Emitted
    /\ llmReq.ResolvedTargetModel = llmReq.Model
    /\ resp.body = reqBody
    /\ Marshal(Unmarshal(reqBody).rb) # reqBody

\* C5: in every response to a request body, the Content-Length header is
\* the decimal byte length of the body the same response carries.
C5_ContentLength ==
    Emitted =>
        /\ HeaderValues("Content-Length") # {}
        /\ \A v \in HeaderValues("Content-Length") :
              /\ Atoi(v) = ByteLen(resp.body)
              /\ (Len(v) > 1 => v[1] # "0")

C5_Witness ==
    /\ Emitted
    /\ resp.body # reqBody
    /\ ByteLen(resp.body) # ByteLen(reqBody)
    /\ ByteLen(resp.body) >= 10

\* C6: in every response to a request body, the header under
\* targetEndpointKey and the one dynamic-metadata field, keyed by
\* targetEndpointKey, both carry the address of the pod Schedule returned,
\* which is the pod stored as reqCtx.TargetPod.
C6_TargetEndpoint ==
    Emitted =>
        /\ HeaderValues(targetEndpointKey) = {sched.pod.Address}
        /\ DOMAIN resp.dynamicMetadata = {targetEndpointKey}
        /\ resp.dynamicMetadata[targetEndpointKey] = sched.pod.Address
        /\ reqCtx.TargetPod = sched.pod
        /\ sched.pod.Address # ""

C6_Witness ==
    /\ Emitted
    /\ Cardinality(podMetrics) > 1
    /\ sched.pod.Address = "10.0.0.2:8000"

\* The body is not a JSON object, or has no string-valued model field, or
\* names a model the catalog does not hold.
BadRequest ==
    LET u == Unmarshal(reqBody)
    IN  \/ ~u.ok
        \/ "model" \notin DOMAIN u.rb
        \/ u.rb["model"].t # "str"
        \/ u.rb["model"].v \notin DOMAIN models

\* The request-body step of the stream has run.
BodyHandled == streamState \in {"S2", "closed"}

C8_ResolvedTarget ==
    llmReq # NilReq =>
        LET targets == models[llmReq.Model].TargetModels
        IN  IF targets = <<>>
            THEN llmReq.ResolvedTargetModel = llmReq.Model
            ELSE \E i \in DOMAIN targets :
                    /\ targets[i].Name = llmReq.ResolvedTargetModel
                    /\ targets[i].Weight > 0

C8_Witness ==
    /\ llmReq.Model = "m1"
    /\ models["m1"].TargetModels = <<Target("m1-a", 0), Target("m1-b", 10)>>
    /\ llmReq.ResolvedTargetModel = "m1-b"

\* C9: RecordRequestLatencies with complete <= received returns an error
\* and leaves every series of the request-duration histogram unchanged;
\* with complete after received it returns no error and adds one
\* observation to the series of its labels and to no other.
C9_LatencyValidity ==
    [][ (lastCall'.n # lastCall.n /\ lastCall'.op = "RecordRequestLatencies")
            => IF lastCall'.b <= lastCall'.a
               THEN /\ lastCall'.err # "nil"
                    /\ requestLatencies' = requestLatencies
               ELSE /\ lastCall'.err = "nil"
                    /\ \A l \in Labels :
                          IF l = lastCall'.label
                          THEN requestLatencies'[l].count =
                                   requestLatencies[l].count + 1
                          ELSE requestLatencies'[l] = requestLatencies[l] ]_vars

C9_Witness ==
    /\ lastCall.op = "RecordRequestLatencies"
    /\ lastCall.b = lastCall.a
    /\ lastCall.err # "nil"
    /\ \E l \in Labels : requestLatencies[l].count > 0

\* C10: each series of the input-token and output-token histograms holds
\* as many observations as calls were made for it with a token count
\* greater than 0.
C10_TokenFiltering ==
    \A l \in Labels :
        /\ inputTokens[l].count = tokenCalls["input"][l]
        /\ outputTokens[l].count = tokenCalls["output"][l]

C10_Witness ==
    /\ lastCall.op \in {"RecordInputTokens", "RecordOutputTokens"}
    /\ lastCall.a = 0
    /\ \E l \in Labels : inputTokens[l].count > 0
    /\ \E l \in Labels : outputTokens[l].count > 0

\* The metrics of the pod the last Schedule call returned.
ScheduledPod == CHOOSE p \in podMetrics : p.Name = sched.pod.Name

\* The names of the filters the last Schedule call evaluated, in order.
VisitedNames == [i \in DOMAIN sched.trace |-> sched.trace[i].node.name]

\* C12: for a Critical request, when some pod with WaitingQueueSize within
\* queueingThresholdLoRA has the resolved target model among its active
\* models, the pod Schedule returns has it too; with two idle pods of
\* which only the first holds m1-b, the first is returned.
C12_LoRAAffinity ==
    (/\ Scheduled
     /\ llmReq.Critical
     /\ \E p \in podMetrics :
           /\ p.WaitingQueueSize <= queueingThresholdLoRA
           /\ llmReq.ResolvedTargetModel \in p.ActiveModels)
        => /\ sched.err = "nil"
           /\ llmReq.ResolvedTargetModel \in ScheduledPod.ActiveModels
           /\ (podMetrics = SnapshotAffinity => sched.pod.Name = 1)

C12_Witness ==
    /\ Scheduled
    /\ llmReq.Critical
    /\ llmReq.ResolvedTargetModel = "m1-b"
    /\ podMetrics = SnapshotAffinity
    /\ sched.pod.Name = 1

\* C13: for a Critical request and a non-empty snapshot in which every pod
\* queues beyond queueingThresholdLoRA, the heavy branch (least queuing,
\* low cost LoRA, least KV cache) runs on the whole snapshot and the pod
\* returned has the smallest WaitingQueueSize of the snapshot; with queues
\* of 120 and 80 the second pod is returned.
C13_HeavyBranch ==
    (/\ Scheduled
     /\ llmReq.Critical
     /\ podMetrics # {}
     /\ \A p \in podMetrics : p.WaitingQueueSize > queueingThresholdLoRA)
        => /\ VisitedNames = <<"critical request", "low queueing filter",
                               "least queuing", "low cost LoRA",
                               "least KV cache percent">>
           /\ sched.trace[3].input = podMetrics
           /\ sched.err = "nil"
           /\ \A p \in podMetrics :
                 ScheduledPod.WaitingQueueSize <= p.WaitingQueueSize
           /\ (podMetrics = SnapshotHighQueues => sched.pod.Name = 2)

C13_Witness ==
    /\ Scheduled
    /\ llmReq.Critical
    /\ podMetrics = SnapshotHighQueues
    /\ sched.pod.Name = 2

\* C17: every pod Schedule returns for a sheddable request has
\* WaitingQueueSize <= 5 and KVCacheUsagePercent < 0.8 in the snapshot the
\* filters ran on.
C17_SheddableAdmitted ==
    (Scheduled /\ ~llmReq.Critical /\ sched.err = "nil")
        => /\ sched.pod.Name \in {p.Name : p \in podMetrics}
           /\ ScheduledPod.WaitingQueueSize <= 5
           /\ ScheduledPod.KVCacheUsagePercent < 80

C17_Witness ==
    /\ Scheduled /\ ~llmReq.Critical /\ sched.err = "nil"
    /\ ScheduledPod.WaitingQueueSize = 5
    /\ \E p \in podMetrics :
          /\ p.KVCacheUsagePercent >= 80
          /\ p.WaitingQueueSize <= ScheduledPod.WaitingQueueSize
          /\ p.ActiveModels # {}

\* C18: for a Critical request and a non-empty snapshot, Schedule returns
\* a pod of the snapshot and no error, and the evaluation ends in the
\* least-queuing and least-KV-cache selectors.
C18_CriticalServed ==
    (Scheduled /\ llmReq.Critical /\ podMetrics # {})
        => /\ sched.err = "nil"
           /\ \E p \in podMetrics :
                 sched.pod = [Name |-> p.Name, Address |-> p.Address]
           /\ VisitedNames[Len(VisitedNames)] = "least KV cache percent"
           /\ \E i \in DOMAIN VisitedNames : VisitedNames[i] = "least queuing"

C18_Witness ==
    /\ Scheduled /\ llmReq.Critical /\ sched.err = "nil"
    /\ \A p \in podMetrics :
          /\ p.WaitingQueueSize <= queueingThresholdLoRA
          /\ llmReq.ResolvedTargetModel \notin p.ActiveModels
          /\ Cardinality(p.ActiveModels) >= p.MaxActiveModels
    /\ Cardinality(podMetrics) > 1

\* {"model":"m1","prompt":"hi"}
BodySimple ==
    <<P("{"), S("model"), P(":"), S("m1"), P(","), S("prompt"), P(":"),
      S("hi"), P("}")>>

\* Scenario S1: one idle pod at 10.0.0.1:8000, model m1 without target
\* models, and the body above.
ScenarioSimple ==
    /\ models = CatalogPlain
    /\ podMetrics = SnapshotIdlePod
    /\ reqBody = BodySimple

\* The response scenario S1 expects, with contentLength as Content-Length.
SimpleResponse(contentLength) ==
    /\ Emitted
    /\ resp.body = reqBody
    /\ HeaderValues("x-gateway-destination-endpoint") = {"10.0.0.1:8000"}
    /\ resp.dynamicMetadata = ("x-gateway-destination-endpoint" :> "10.0.0.1:8000")
    /\ HeaderValues("Content-Length") = {contentLength}

\* C14 as stated: in scenario S1 the response to the request body leaves
\* the body unchanged, sets x-gateway-destination-endpoint to
\* 10.0.0.1:8000 in the header and in the dynamic metadata, and sets
\* Content-Length to 30.
C14_SimpleLength30 ==
    (ScenarioSimple /\ BodyHandled) => SimpleResponse(<<"3", "0">>)

\* C14, amended: the same response with Content-Length 28, the byte
\* length of the body.
C14_SimpleLength28 ==
    (ScenarioSimple /\ BodyHandled) => SimpleResponse(<<"2", "8">>)

C14_Witness ==
    /\ ScenarioSimple
    /\ BodyHandled
    /\ Emitted
    /\ ByteLen(resp.body) = 28

\* What the filter tree returned to the last Schedule call: the result of
\* the last filter it evaluated.
TreeResult == sched.trace[Len(sched.trace)]

\* C16: Schedule returns the error of the filter tree with the zero pod
\* when the tree returns one; the error "filter returned zero pods on
\* success" with the zero pod when the tree returns no error and no pod;
\* and otherwise no error and a pod of the set the tree returned. The
\* resource-exhausted error comes from the drop filter only.
C16_ScheduleOutcome ==
    Scheduled =>
        /\ TreeResult.err # "nil" =>
              sched.err = TreeResult.err /\ sched.pod = NilPod
        /\ (TreeResult.err = "nil" /\ TreeResult.output = {}) =>
              /\ sched.err = "filter returned zero pods on success"
              /\ sched.pod = NilPod
        /\ (TreeResult.err = "nil" /\ TreeResult.output # {}) =>
              /\ sched.err = "nil"
              /\ \E pm \in TreeResult.output :
                    sched.pod = [Name |-> pm.Name, Address |-> pm.Address]
        /\ sched.err = "ResourceExhausted" =>
              TreeResult.node.name = "drop request"

\* A tree that returned no error and no pod, reported as the zero-pods
\* error.
C16_Witness ==
    /\ Scheduled
    /\ TreeResult.err = "nil"
    /\ TreeResult.output = {}
    /\ sched.err = "filter returned zero pods on success"

\* A call of Register has returned.
Returned == \E g \in Goroutines : callers[g].returns > 0

\* C15: whatever the number of Register calls and however the goroutines
\* making them interleave, no MustRegister panics on a duplicate, no metric
\* is handed to the registry twice, all registrations are made by one call
\* of one goroutine, and once any call has returned each of the eight
\* metrics is registered exactly once.
C15_RegisterOnce ==
    /\ ~registry.panicked
    /\ \A i \in DOMAIN Metrics : registry.attempts[i] <= 1
    /\ \A i, j \in DOMAIN Metrics :
          (registry.by[i] # NoOne /\ registry.by[j] # NoOne) =>
              registry.by[i] = registry.by[j]
    /\ Returned =>
          \A i \in DOMAIN Metrics :
              registry.attempts[i] = 1 /\ registry.by[i] # NoOne

\* One goroutine registered the eight metrics and called Register again;
\* another called Register while the first was registering, waited for
\* the Once and returned without registering.
C15_Witness ==
    \E g, h \in Goroutines :
        /\ g # h
        /\ Len(Metrics) = 8
        /\ \A i \in DOMAIN Metrics : registry.by[i].goroutine = h
        /\ callers[h].returns >= 2
        /\ callers[g].waited
        /\ callers[g].returns >= 1

\* The place of a message kind in the order of a stream.
StepRank(kind) ==
    CASE kind = "request_headers" -> 1
      [] kind = "request_body" -> 2
      [] kind = "response_headers" -> 3
      [] kind = "response_body" -> 4
      [] kind = "end" -> 5

\* The place of a stream state in the life of a stream.
StateRank(state) ==
    CASE state = "S0" -> 0
      [] state = "S1" -> 1
      [] state = "S2" -> 2
      [] state \in {"end", "closed"} -> 3

\* The messages were handled in order: only response-body chunks repeat,
\* and no request or response step is skipped before a later one.
InOrder(steps) ==
    /\ \A i, j \in DOMAIN steps :
          i < j => \/ StepRank(steps[i]) < StepRank(steps[j])
                   \/ steps[i] = "response_body" /\ steps[j] = "response_body"
    /\ \A i \in DOMAIN steps :
          steps[i] # "end" => StepRank(steps[i]) <= i

\* The response at place i of the log routes the request to the pod.
RoutesTo(log, i, pod) ==
    /\ log[i].kind = "RequestBody"
    /\ \E k \in DOMAIN log[i].setHeaders :
          /\ log[i].setHeaders[k].Key = targetEndpointKey
          /\ log[i].setHeaders[k].RawValue = pod.Address

StreamInOrder(st) ==
    /\ InOrder(st.steps)
    /\ \A i \in DOMAIN st.log :
          st.log[i].kind = "RequestBody" =>
              /\ \E j \in 1 .. (i - 1) :
                    /\ st.log[j].kind = "RequestHeaders"
                    /\ st.log[j].clearRouteCache
              /\ RoutesTo(st.log, i, st.reqCtx.TargetPod)
    /\ (st.state = "S2" \/ Handled(st, "response_headers")
                        \/ Handled(st, "response_body")) =>
          /\ Handled(st, "request_body")
          /\ st.err = "nil"
          /\ \E pm \in podMetrics :
                st.reqCtx.TargetPod = [Name |-> pm.Name, Address |-> pm.Address]
          /\ \E i \in DOMAIN st.log : RoutesTo(st.log, i, st.reqCtx.TargetPod)
    /\ st.state = "closed" =>
          /\ st.err # "nil"
          /\ \A i \in DOMAIN st.log : st.log[i].kind # "RequestBody"

\* A step of a stream keeps what the stream has handled and does not move
\* it to an earlier state.
StreamAdvances(sid) ==
    /\ StateRank(streams'[sid].state) >= StateRank(streams[sid].state)
    /\ Len(streams'[sid].steps) >= Len(streams[sid].steps)
    /\ SubSeq(streams'[sid].steps, 1, Len(streams[sid].steps)) = streams[sid].steps

\* C11: in every stream the messages are handled in the order
\* request-headers, request-body, response-headers, response-body chunks,
\* end; the body response with the target endpoint comes after the headers
\* response with clear_route_cache set; the stream observes the response
\* only after a request-body step that scheduled a pod; and no step takes
\* a stream back to an earlier state, whatever the other streams do.
C11_StreamOrder ==
    /\ [](\A sid \in Streams : StreamInOrder(streams[sid]))
    /\ [][\A sid \in Streams : StreamAdvances(sid)]_vars

\* One stream has been routed and is observing response chunks while
\* another, opened before it ended, still awaits its request body.
C11_Witness ==
    \E sid, tid \in Streams :
        /\ streams[sid].state = "S2"
        /\ Handled(streams[sid], "response_body")
        /\ Len(streams[sid].log) = 2
        /\ streams[tid].state = "S1"

====
